---- MODULE Spec2Model ----
(***************************************************************************)
(* Model of smhi_open_data: the response-normalisation functions of        *)
(* utils.py and the station / multi-parameter methods of                   *)
(* SMHIOpenDataClient (client.py).                                         *)
(*                                                                         *)
(* A pandas DataFrame is a record                                          *)
(*    [columns |-> <<names>>, index |-> <<labels>>, data |-> <<rows>>]     *)
(* where a row is the sequence of its cells in column order.               *)
(* An instant (datetime64[ns, UTC]) is a number of hours since the epoch;  *)
(* a float is a number of thousandths; a string that is parsed            *)
(* character by character is a sequence of one-character strings.          *)
(***************************************************************************)
EXTENDS Integers, Sequences, FiniteSets, TLC

VARIABLES
    pc,                 \* position of the call being modelled
    raised,             \* the exception that ended the call, or "none"
    \* combine_archived_and_latest_months
    corrected_df, latest_months_df, combine_since, combined_df,
    \* get_closest_station
    stations, latitude, longitude, closest_station, closests_dist,
    \* get_stations
    api_stations, param, station_ids, pos,
    \* json_to_dataframe / format_archived_dataframe
    json_data, csv_df, parameter, df,
    \* get_latest_observations: the station-set response, the periods
    \* response, the stations of the data response, the result
    station_set, periods, res, values,
    \* get_latest_months_multiple_params
    parameters, api_json, i

stitchVars == <<corrected_df, latest_months_df, combine_since, combined_df>>
closestVars == <<latitude, longitude, closest_station, closests_dist>>
stationVars == <<api_stations, param, station_ids, pos>>
frameVars == <<json_data, csv_df, parameter, df>>
latestVars == <<station_set, periods, res, values>>
joinVars == <<parameters, api_json, i>>
vars == <<pc, raised, stitchVars, stations, closestVars, stationVars,
          frameVars, latestVars, joinVars>>

None == [none |-> TRUE]

(***************************************************************************)
(* Bounds of the model.                                                    *)
(***************************************************************************)
MaxDate == 6        \* instants of the stitched tables are 1..MaxDate
MaxStations == 3    \* length of the station list scanned by get_closest_station
MaxStationId == 2   \* station ids the API serves are 1..MaxStationId
NumParams == 2      \* members of the Parameter enum iterated by get_stations
MaxRecords == 2     \* records of one JSON payload
MaxTables == 3      \* parameters of one multi-parameter request
MaxJoinDate == 3    \* days covered by the tables of a multi-parameter request

(***************************************************************************)
(* Idle values: what the variables of the other operations hold while one  *)
(* operation is modelled.                                                  *)
(***************************************************************************)
EmptyFrame == [columns |-> <<>>, index |-> <<>>, data |-> <<>>]

StitchIdle ==
    /\ corrected_df = EmptyFrame /\ latest_months_df = EmptyFrame
    /\ combine_since = 0 /\ combined_df = EmptyFrame
ClosestIdle ==
    /\ latitude = 0 /\ longitude = 0
    /\ closest_station = None /\ closests_dist = 0
StationsIdle ==
    /\ api_stations = <<>> /\ param = 0 /\ station_ids = {} /\ pos = 0
FrameIdle ==
    /\ json_data = <<>> /\ csv_df = EmptyFrame
    /\ parameter = "" /\ df = EmptyFrame
LatestIdle ==
    /\ station_set = [key |-> "1"] /\ periods = [key |-> "all"]
    /\ res = <<>> /\ values = <<>>
JoinIdle ==
    /\ parameters = <<>> /\ api_json = <<>> /\ i = 0

(***************************************************************************)
(* Sequences.                                                              *)
(***************************************************************************)
Range(s) == {s[k] : k \in 1..Len(s)}

SetMin(S) == CHOOSE x \in S : \A y \in S : x <= y
SetMax(S) == CHOOSE x \in S : \A y \in S : y <= x

RECURSIVE SortedSeq(_)
SortedSeq(S) ==
    IF S = {} THEN <<>> ELSE <<SetMin(S)>> \o SortedSeq(S \ {SetMin(S)})

\* the subsequence of s at the positions whose mask entry is TRUE
RECURSIVE Mask(_, _)
Mask(s, m) ==
    IF s = <<>> THEN <<>>
    ELSE (IF Head(m) THEN <<Head(s)>> ELSE <<>>) \o Mask(Tail(s), Tail(m))

(***************************************************************************)
(* DataFrame operations used by the code.                                  *)
(***************************************************************************)
NRows(frame) == Len(frame.data)
HasCol(frame, name) == \E c \in 1..Len(frame.columns) : frame.columns[c] = name
ColPos(frame, name) ==
    CHOOSE c \in 1..Len(frame.columns) :
        /\ frame.columns[c] = name
        /\ \A b \in 1..(c - 1) : frame.columns[b] # name
\* frame.name / frame[name]: the cells of one column, in row order
Col(frame, name) == [r \in 1..NRows(frame) |-> frame.data[r][ColPos(frame, name)]]

\* frame[name] = cells: replaces the column, or appends it as the last one
SetCol(frame, name, cells) ==
    IF HasCol(frame, name)
    THEN [frame EXCEPT !.data =
            [r \in 1..NRows(frame) |->
                [frame.data[r] EXCEPT ![ColPos(frame, name)] = cells[r]]]]
    ELSE [frame EXCEPT !.columns = Append(frame.columns, name),
                       !.data = [r \in 1..NRows(frame) |->
                                    Append(frame.data[r], cells[r])]]

\* a Python position (0-based, negative from the end) as a position 1..n
PyPos(p, n) == IF p < 0 THEN n + p + 1 ELSE p + 1
ILocOk(frame, ps) ==
    \A k \in 1..Len(ps) : PyPos(ps[k], Len(frame.columns)) \in 1..Len(frame.columns)
\* frame.iloc[:, ps]
ILoc(frame, ps) ==
    [frame EXCEPT
        !.columns = [k \in 1..Len(ps) |-> frame.columns[PyPos(ps[k], Len(frame.columns))]],
        !.data = [r \in 1..NRows(frame) |->
                    [k \in 1..Len(ps) |-> frame.data[r][PyPos(ps[k], Len(frame.columns))]]]]

\* frame[mask]: the rows whose mask entry is TRUE, with their index labels
Filter(frame, mask) ==
    [frame EXCEPT !.index = Mask(frame.index, mask),
                  !.data = Mask(frame.data, mask)]

\* a.append(b) for frames with the same columns: the rows of a, then those of b
FrameAppend(a, b) ==
    [columns |-> a.columns, index |-> a.index \o b.index, data |-> a.data \o b.data]

\* frame.reset_index(drop=True)
ResetIndex(frame) == [frame EXCEPT !.index = [r \in 1..NRows(frame) |-> r - 1]]

(***************************************************************************)
(* combine_archived_and_latest_months (utils.py).                          *)
(***************************************************************************)
\* NaT, what Series.max() gives for a column without rows
NaT == -1

\* corrected_df.date.max()
DateMax(frame) ==
    IF NRows(frame) = 0 THEN NaT ELSE SetMax(Range(Col(frame, "date")))

\* mutant: NaT read as an instant before every other
GreaterThanNaTFirst(d, m) == d > m
\* mutant: >= for >
GreaterThanOrEqual(d, m) == m # NaT /\ d >= m

\* d > m on instants: every comparison with NaT is False
GreaterThan(d, m) == m # NaT /\ d > m

\* mutant: the archive is cut at the first date after combine_since
GreaterEqualStrict(d, since) == d > since

\* d >= combine_since
GreaterEqual(d, since) == d >= since

CombineArchivedAndLatestMonths(corrected, latest, since) ==
    ResetIndex(
        FrameAppend(
            Filter(corrected,
                   [r \in 1..NRows(corrected) |->
                        GreaterEqual(Col(corrected, "date")[r], since)]),
            Filter(latest,
                   [r \in 1..NRows(latest) |->
                        GreaterThan(Col(latest, "date")[r], DateMax(corrected))])))

\* A table of get_corrected_data / get_latest_months: one row per date, in
\* ascending order.  The column src is a ghost: it records the table a row
\* comes from and is read by no operation.
StitchColumns == <<"date", "TemperaturePast1h", "quality", "station_id", "src">>
StitchFrame(dates, src) ==
    [columns |-> StitchColumns,
     index |-> [r \in 1..Cardinality(dates) |-> r - 1],
     data |-> [r \in 1..Cardinality(dates) |->
                  <<SortedSeq(dates)[r], 0, "G", 1, src>>]]

StitchInit ==
    /\ pc = "stitch" /\ raised = "none"
    /\ \E A \in SUBSET (1..MaxDate) : corrected_df = StitchFrame(A, "archive")
    /\ \E L \in SUBSET (1..MaxDate) : latest_months_df = StitchFrame(L, "latest")
    /\ combine_since \in 0..(MaxDate + 1)
    /\ combined_df = EmptyFrame
    /\ stations = <<>>
    /\ ClosestIdle /\ StationsIdle /\ FrameIdle /\ LatestIdle /\ JoinIdle

Stitch ==
    /\ pc = "stitch"
    /\ combined_df' = CombineArchivedAndLatestMonths(
                          corrected_df, latest_months_df, combine_since)
    /\ pc' = "stitched"
    /\ UNCHANGED <<raised, corrected_df, latest_months_df, combine_since,
                   stations, closestVars, stationVars, frameVars, latestVars,
                   joinVars>>

StitchNext == Stitch
SpecStitch == StitchInit /\ [][StitchNext]_vars

(***************************************************************************)
(* Claims about combine_archived_and_latest_months.                        *)
(***************************************************************************)
DateOf(row) == row[1]
SrcOf(row) == row[5]
RowsSince(rows, since) == LET Keep(row) == DateOf(row) >= since IN SelectSeq(rows, Keep)
RowsAfter(rows, m) == LET Keep(row) == DateOf(row) > m IN SelectSeq(rows, Keep)
RowDates(rows) == {DateOf(rows[r]) : r \in 1..Len(rows)}
ZeroIndexed(frame) == frame.index = [r \in 1..NRows(frame) |-> r - 1]
\* the archive rows kept by the combine_since filter
ArchiveKept == RowsSince(corrected_df.data, combine_since)

\* C2 as stated: the result is the archive rows with date >= combine_since
\* followed by the latest rows whose date is strictly greater than the maximum
\* date of the filtered archive (no bound when the filtered archive is empty),
\* re-indexed from zero.
C2_FilteredMaxStated ==
    pc = "stitched" =>
        /\ combined_df.data =
              ArchiveKept \o
              (IF ArchiveKept = <<>> THEN latest_months_df.data
               ELSE RowsAfter(latest_months_df.data, SetMax(RowDates(ArchiveKept))))
        /\ ZeroIndexed(combined_df)

\* C2 amended: the result is the archive rows with date >= combine_since
\* followed by the latest rows whose date is strictly greater than the maximum
\* date of the whole archive (no latest row when the archive has no rows),
\* re-indexed from zero.
C2_StitchUsesWholeArchiveMax ==
    pc = "stitched" =>
        /\ combined_df.data =
              ArchiveKept \o
              (IF corrected_df.data = <<>> THEN <<>>
               ELSE RowsAfter(latest_months_df.data,
                              SetMax(RowDates(corrected_df.data))))
        /\ ZeroIndexed(combined_df)

\* the example of the claim: archive dates [1,2,5], latest dates [3,6],
\* combine_since 2, result dates [2,5,6]
C2_Witness ==
    /\ pc = "stitched"
    /\ Col(corrected_df, "date") = <<1, 2, 5>>
    /\ Col(latest_months_df, "date") = <<3, 6>>
    /\ combine_since = 2
    /\ Col(combined_df, "date") = <<2, 5, 6>>

\* C3 as stated: when no archive row has date >= combine_since, the result is
\* all rows of latest in their order, and the call does not fail.
C3_EmptyArchiveKeepsAllLatest ==
    (pc = "stitched" /\ ArchiveKept = <<>>) =>
        /\ raised = "none"
        /\ combined_df.data = latest_months_df.data

\* C3 amended: when no archive row has date >= combine_since the call does not
\* fail and the result holds latest rows only, in their order: none when the
\* archive has no rows (its maximum is NaT), else exactly those with a date
\* strictly greater than the maximum date of the whole archive.
C3_EmptyFilteredArchive ==
    (pc = "stitched" /\ ArchiveKept = <<>>) =>
        /\ raised = "none"
        /\ combined_df.data =
              (IF corrected_df.data = <<>> THEN <<>>
               ELSE RowsAfter(latest_months_df.data,
                              SetMax(RowDates(corrected_df.data))))

\* every archive date is earlier than combine_since, and a latest row is dropped
\* while another is kept
C3_Witness ==
    /\ pc = "stitched"
    /\ corrected_df.data # <<>>
    /\ ArchiveKept = <<>>
    /\ combined_df.data # <<>>
    /\ Len(combined_df.data) < Len(latest_months_df.data)

\* C7: for archive and latest tables each sorted by date ascending, the result
\* is sorted by date ascending, every archive row precedes every latest row,
\* and no latest row has a date less than or equal to that of an archive row.
C7_StitchOrdered ==
    pc = "stitched" =>
        \A j \in 1..NRows(combined_df) : \A k \in 1..NRows(combined_df) :
            /\ j < k => DateOf(combined_df.data[j]) <= DateOf(combined_df.data[k])
            /\ j < k => ~(SrcOf(combined_df.data[j]) = "latest"
                          /\ SrcOf(combined_df.data[k]) = "archive")
            /\ (SrcOf(combined_df.data[j]) = "archive"
                /\ SrcOf(combined_df.data[k]) = "latest")
               => DateOf(combined_df.data[j]) < DateOf(combined_df.data[k])

\* a result with rows of both tables, from tables that overlap in time
C7_Witness ==
    /\ pc = "stitched"
    /\ \E j \in 1..NRows(combined_df) : SrcOf(combined_df.data[j]) = "archive"
    /\ \E k \in 1..NRows(combined_df) : SrcOf(combined_df.data[k]) = "latest"
    /\ Len(ArchiveKept) < NRows(corrected_df)
    /\ \E r \in 1..NRows(latest_months_df) :
           DateOf(latest_months_df.data[r]) \in RowDates(ArchiveKept)

(***************************************************************************)
(* distance (utils.py) and get_closest_station (client.py).                *)
(* Coordinates are in tenths of a degree, distances in units of 10 km.     *)
(***************************************************************************)
CONST_EARTH_DIAMETER == 12742
\* mutant: the sentinel is the diameter of the Earth
DiameterSentinel == CONST_EARTH_DIAMETER \div 10
\* 1e10 km, the initial closests_dist
InitialClosestDist == 1000000000

\* asin(sqrt(a)) of distance(), in units of 1e-5 rad, at the points of the
\* model: the value the source's formula gives in double precision
HalfAngle ==
    (<<591, 180, 590, 180>> :> 87) @@ (<<591, 180, 600, 180>> :> 785) @@
    (<<591, 180, 580, 180>> :> 959) @@ (<<591, 180, 590, 190>> :> 457) @@
    (<<591, 180, -590, -1620>> :> 156992) @@
    (<<590, 180, 590, 180>> :> 0) @@ (<<590, 180, 600, 180>> :> 872) @@
    (<<590, 180, 580, 180>> :> 872) @@ (<<590, 180, 590, 190>> :> 449) @@
    (<<590, 180, -590, -1620>> :> 157079)

QueryPoints == {<<591, 180>>, <<590, 180>>}
StationPoints ==
    {<<590, 180>>, <<600, 180>>, <<580, 180>>, <<590, 190>>, <<-590, -1620>>}

distance(lat1, lon1, lat2, lon2) ==
    (CONST_EARTH_DIAMETER * HalfAngle[<<lat1, lon1, lat2, lon2>>]) \div 1000000

\* station.get(key) is None: the key is missing (or null) in the station
IsNone(station, key) == key \notin DOMAIN station
HasCoordinates(station) ==
    ~IsNone(station, "latitude") /\ ~IsNone(station, "longitude")

\* mutant: a later station at the same distance replaces the earlier one
CloserOrEqual(dist, best) == dist <= best

\* dist < closests_dist
Closer(dist, best) == dist < best

\* the loop of get_closest_station over sts, from the state best =
\* [station |-> closest_station, dist |-> closests_dist]
RECURSIVE ClosestScan(_, _, _, _)
ClosestScan(sts, lat, lon, best) ==
    IF sts = <<>> THEN best
    ELSE LET station == Head(sts) IN
         IF IsNone(station, "latitude") \/ IsNone(station, "longitude")
         THEN ClosestScan(Tail(sts), lat, lon, best)
         ELSE LET dist == distance(lat, lon, station.latitude, station.longitude) IN
              IF Closer(dist, best.dist)
              THEN ClosestScan(Tail(sts), lat, lon, [station |-> station, dist |-> dist])
              ELSE ClosestScan(Tail(sts), lat, lon, best)

\* the stations the API can serve at list position k: with both coordinates,
\* with one of them, with none
StationsAt(k) ==
    {("id" :> k) @@ ("latitude" :> p[1]) @@ ("longitude" :> p[2]) : p \in StationPoints}
    \cup {("id" :> k) @@ ("latitude" :> 590), ("id" :> k) @@ ("longitude" :> 180),
          ("id" :> k)}

StationLists ==
    UNION {{s \in [1..n -> UNION {StationsAt(k) : k \in 1..n}] :
                \A k \in 1..n : s[k] \in StationsAt(k)} : n \in 0..MaxStations}

ClosestInit ==
    /\ pc = "locate" /\ raised = "none"
    /\ stations \in StationLists
    /\ \E q \in QueryPoints : latitude = q[1] /\ longitude = q[2]
    /\ closest_station = None /\ closests_dist = InitialClosestDist
    /\ StitchIdle /\ StationsIdle /\ FrameIdle /\ LatestIdle /\ JoinIdle

GetClosestStation ==
    /\ pc = "locate"
    /\ LET best == ClosestScan(stations, latitude, longitude,
                               [station |-> None, dist |-> InitialClosestDist])
       IN /\ closest_station' = best.station
          /\ closests_dist' = best.dist
    /\ pc' = "located"
    /\ UNCHANGED <<raised, stitchVars, stations, latitude, longitude,
                   stationVars, frameVars, latestVars, joinVars>>

ClosestNext == GetClosestStation
SpecClosest == ClosestInit /\ [][ClosestNext]_vars

(***************************************************************************)
(* Claims about get_closest_station.                                       *)
(***************************************************************************)
DistTo(station) == distance(latitude, longitude, station.latitude, station.longitude)

\* C1: when some station has both coordinates, the returned station has both
\* coordinates, its distance to the query point is the minimum over the
\* stations with both coordinates, and it is the first station of the list at
\* that distance.
C1_ClosestIsFirstMinimum ==
    (pc = "located" /\ \E k \in 1..Len(stations) : HasCoordinates(stations[k])) =>
        \E k \in 1..Len(stations) :
            /\ closest_station = stations[k]
            /\ HasCoordinates(stations[k])
            /\ closests_dist = DistTo(stations[k])
            /\ \A j \in 1..Len(stations) :
                   HasCoordinates(stations[j]) =>
                       /\ DistTo(stations[k]) <= DistTo(stations[j])
                       /\ j < k => DistTo(stations[j]) > DistTo(stations[k])

\* two stations at the same minimum distance after a station without
\* coordinates: the earlier of the two is returned
C1_Witness ==
    /\ pc = "located"
    /\ Len(stations) = 3
    /\ ~HasCoordinates(stations[1])
    /\ HasCoordinates(stations[2]) /\ HasCoordinates(stations[3])
    /\ stations[2].latitude # stations[3].latitude
    /\ DistTo(stations[2]) = DistTo(stations[3])
    /\ closest_station = stations[2]

\* C6: the call returns None, without raising, exactly when no station of the
\* list has both latitude and longitude; every distance is below the initial
\* closests_dist.
C6_NoneIffNoCoordinates ==
    pc = "located" =>
        /\ raised = "none"
        /\ (closest_station = None) <=>
               (\A k \in 1..Len(stations) : ~HasCoordinates(stations[k]))
        /\ \A k \in 1..Len(stations) :
               HasCoordinates(stations[k]) => DistTo(stations[k]) < InitialClosestDist

\* a non-empty list in which every station lacks a coordinate gives None, and
\* so does the empty list
C6_Witness ==
    /\ pc = "located"
    /\ closest_station = None
    /\ Len(stations) = 2
    /\ IsNone(stations[1], "latitude") /\ ~IsNone(stations[1], "longitude")
    /\ ~IsNone(stations[2], "latitude") /\ IsNone(stations[2], "longitude")

(***************************************************************************)
(* get_stations (client.py).  One step per HTTP request and per iteration  *)
(* of the inner loop; pos is the position of the list iterator.            *)
(***************************************************************************)
\* the station lists get_parameter_stations can return: each station once
ParameterStationLists ==
    UNION {{s \in [1..n -> {[id |-> k] : k \in 1..MaxStationId}] :
                \A a \in 1..n : \A b \in 1..n : a # b => s[a] # s[b]}
           : n \in 0..MaxStationId}

\* mutant: the membership test is lost, every station is appended
AlwaysNew(id, ids) == TRUE

\* station["id"] not in station_ids
NotSeen(id, ids) == id \notin ids

StationsInit ==
    /\ pc = "next_param" /\ raised = "none"
    /\ api_stations \in [1..NumParams -> ParameterStationLists]
    /\ param = 0 /\ pos = 0
    /\ stations = <<>> /\ station_ids = {}
    /\ StitchIdle /\ ClosestIdle /\ FrameIdle /\ LatestIdle /\ JoinIdle

\* for param in Parameter: stations = self.get_parameter_stations(param)
FetchParameterStations ==
    /\ pc = "next_param" /\ param < NumParams
    /\ param' = param + 1
    /\ stations' = api_stations[param + 1]
    /\ pos' = 0
    /\ pc' = "scan"
    /\ UNCHANGED <<raised, api_stations, station_ids, stitchVars, closestVars,
                   frameVars, latestVars, joinVars>>

\* one iteration of: for station in stations
ScanStation ==
    /\ pc = "scan" /\ pos < Len(stations)
    /\ LET station == stations[pos + 1] IN
         IF NotSeen(station.id, station_ids)
         THEN /\ station_ids' = station_ids \cup {station.id}
              /\ stations' = Append(stations, station)
         ELSE UNCHANGED <<station_ids, stations>>
    /\ pos' = pos + 1
    /\ UNCHANGED <<pc, raised, api_stations, param, stitchVars, closestVars,
                   frameVars, latestVars, joinVars>>

\* the iterator is past the end of the list
ScanEnd ==
    /\ pc = "scan" /\ pos >= Len(stations)
    /\ pc' = "next_param"
    /\ UNCHANGED <<raised, stations, stationVars, stitchVars, closestVars,
                   frameVars, latestVars, joinVars>>

\* return stations
ReturnStations ==
    /\ pc = "next_param" /\ param = NumParams
    /\ pc' = "returned"
    /\ UNCHANGED <<raised, stations, stationVars, stitchVars, closestVars,
                   frameVars, latestVars, joinVars>>

StationsNext ==
    \/ FetchParameterStations
    \/ ScanStation
    \/ ScanEnd
    \/ ReturnStations

\* the call is one sequential computation: it keeps running while a step is
\* possible
SpecStations == StationsInit /\ [][StationsNext]_vars /\ WF_vars(StationsNext)

(***************************************************************************)
(* Claims about get_stations.                                              *)
(***************************************************************************)
StationIds(sts) == {sts[k].id : k \in 1..Len(sts)}
NoDuplicateIds(sts) ==
    \A a \in 1..Len(sts) : \A b \in 1..Len(sts) : a # b => sts[a].id # sts[b].id

\* C9: the returned list contains every station that is in the list of at
\* least one parameter, and no two entries with the same station id.
C9_UnionWithoutDuplicates ==
    pc = "returned" =>
        /\ \A p \in 1..NumParams : StationIds(api_stations[p]) \subseteq StationIds(stations)
        /\ NoDuplicateIds(stations)

\* C10: get_stations terminates: while a list is scanned, the part appended to
\* it holds each station id at most once, and the call reaches its return.
C10_GetStationsTerminates ==
    /\ [](pc = "scan" =>
            /\ Len(stations) >= Len(api_stations[param])
            /\ NoDuplicateIds(SubSeq(stations, Len(api_stations[param]) + 1,
                                     Len(stations))))
    /\ <>(pc = "returned")

\* the call has returned after a scan that appended to the list it iterated
C10_Witness ==
    /\ pc = "returned"
    /\ Len(stations) > Len(api_stations[NumParams])

(***************************************************************************)
(* Parameter (enums.py) and the archive format groups (utils.py).          *)
(***************************************************************************)
\* the names of the Parameter enum the model uses, in definition order
Parameter ==
    <<"TemperaturePast1h", "TemperaturePast24h", "WindSpeed",
      "PrecipPast24hAt06", "Humidity">>
\* parameter.value
ParameterValue(name) == CHOOSE k \in 1..Len(Parameter) : Parameter[k] = name

ARCHIVED_PARAMETER_GROUP1 == <<"TemperaturePast1h", "Humidity">>
ARCHIVED_PARAMETER_GROUP2 == <<"PrecipPast24hAt06">>

\* mutant: a parameter of neither group is taken for one of group 2
InGroup2OrUnmapped(name) == name \notin Range(ARCHIVED_PARAMETER_GROUP1)

\* parameter.name in ARCHIVED_PARAMETER_GROUP1
InGroup1(name) == name \in Range(ARCHIVED_PARAMETER_GROUP1)
\* parameter.name in ARCHIVED_PARAMETER_GROUP2
InGroup2(name) == name \in Range(ARCHIVED_PARAMETER_GROUP2)

(***************************************************************************)
(* float(x) and try_parse_float (utils.py).  A string is a sequence of     *)
(* characters, a float a number of thousandths.                            *)
(***************************************************************************)
Str(chars) == [t |-> "str", v |-> chars]
Float(milli) == [t |-> "float", v |-> milli]

DigitValue ==
    ("0" :> 0) @@ ("1" :> 1) @@ ("2" :> 2) @@ ("3" :> 3) @@ ("4" :> 4) @@
    ("5" :> 5) @@ ("6" :> 6) @@ ("7" :> 7) @@ ("8" :> 8) @@ ("9" :> 9)
IsDigits(chars) == \A k \in 1..Len(chars) : chars[k] \in DOMAIN DigitValue

RECURSIVE DigitsValue(_)
DigitsValue(chars) ==
    IF chars = <<>> THEN 0
    ELSE 10 * DigitsValue(SubSeq(chars, 1, Len(chars) - 1)) + DigitValue[chars[Len(chars)]]

\* the first three fractional digits, as thousandths
FractionMilli(chars) ==
    DigitsValue(SubSeq(chars \o <<"0", "0", "0">>, 1, 3))

\* float(chars) for a string of digits, sign, point and other characters:
\* [ok |-> FALSE] stands for ValueError
ParseFloat(chars) ==
    LET signed == chars # <<>> /\ Head(chars) \in {"+", "-"}
        body == IF signed THEN Tail(chars) ELSE chars
        dots == {k \in 1..Len(body) : body[k] = "."}
        dot == IF dots = {} THEN Len(body) + 1 ELSE SetMin(dots)
        whole == SubSeq(body, 1, dot - 1)
        fraction == SubSeq(body, dot + 1, Len(body))
        magnitude == 1000 * DigitsValue(whole) + FractionMilli(fraction)
    IN IF /\ Cardinality(dots) <= 1
          /\ IsDigits(whole) /\ IsDigits(fraction)
          /\ Len(whole) + Len(fraction) >= 1
       THEN [ok |-> TRUE,
             v |-> IF signed /\ Head(chars) = "-" THEN 0 - magnitude ELSE magnitude]
       ELSE [ok |-> FALSE, v |-> 0]

\* mutant: a value that does not parse becomes None
TryParseFloatOrNone(x) ==
    IF x.t = "float" THEN x
    ELSE IF ParseFloat(x.v).ok THEN Float(ParseFloat(x.v).v) ELSE None

\* try_parse_float: the ValueError of float(x) is caught and x returned
TryParseFloat(x) ==
    IF x.t = "float" THEN x
    ELSE IF ParseFloat(x.v).ok THEN Float(ParseFloat(x.v).v) ELSE x

\* column.astype(float): raises ValueError when a cell does not parse
AsTypeFloatOk(cells) ==
    \A r \in 1..Len(cells) : cells[r].t = "float" \/ ParseFloat(cells[r].v).ok
AsTypeFloat(cells) ==
    [r \in 1..Len(cells) |->
        IF cells[r].t = "float" THEN cells[r] ELSE Float(ParseFloat(cells[r].v).v)]

\* the value strings of the model
SampleValues ==
    {<<"3", ".", "1", "4">>, <<"7">>, <<"-", "0", ".", "5">>,
     <<"N", "/", "A">>, <<>>}

(***************************************************************************)
(* json_to_dataframe (utils.py).  A JSON record is the sequence of its     *)
(* <<key, value>> pairs; epoch milliseconds are whole hours; a date string *)
(* is the number of its day.                                               *)
(***************************************************************************)
MsPerHour == 3600000
HoursPerDay == 24

\* pd.DataFrame(json_data)
DataFrame(records) ==
    IF records = <<>> THEN EmptyFrame
    ELSE [columns |-> [c \in 1..Len(records[1]) |-> records[1][c][1]],
          index |-> [r \in 1..Len(records) |-> r - 1],
          data |-> [r \in 1..Len(records) |->
                       [c \in 1..Len(records[r]) |-> records[r][c][2]]]]

\* pd.to_datetime(column, unit="ms", utc=True)
ToDatetimeMs(cells) == [r \in 1..Len(cells) |-> cells[r] \div MsPerHour]
\* pd.to_datetime(column, utc=True) of date strings: midnight of the day
ToDatetimeDay(cells) == [r \in 1..Len(cells) |-> cells[r] * HoursPerDay]

Raise(error, frame) == [raised |-> error, df |-> frame]
Return(frame) == [raised |-> "none", df |-> frame]

JsonToDataframe(records, name) ==
    LET frame == DataFrame(records) IN
    IF InGroup2(name)
    THEN IF ~HasCol(frame, "ref") THEN Raise("AttributeError", frame)
         ELSE LET dated == SetCol(frame, "date", ToDatetimeDay(Col(frame, "ref"))) IN
              IF ~HasCol(dated, "value") THEN Raise("AttributeError", dated)
              ELSE IF ~AsTypeFloatOk(Col(dated, "value")) THEN Raise("ValueError", dated)
              ELSE LET valued == SetCol(dated, "value", AsTypeFloat(Col(dated, "value"))) IN
                   IF ~ILocOk(valued, <<-1, 3, 4>>) THEN Raise("IndexError", valued)
                   ELSE Return(ILoc(valued, <<-1, 3, 4>>))
    ELSE IF ~HasCol(frame, "date") THEN Raise("AttributeError", frame)
         ELSE LET dated == SetCol(frame, "date", ToDatetimeMs(Col(frame, "date"))) IN
              IF ~HasCol(dated, "value") THEN Raise("AttributeError", dated)
              ELSE IF ~AsTypeFloatOk(Col(dated, "value")) THEN Raise("ValueError", dated)
              ELSE Return(SetCol(dated, "value", AsTypeFloat(Col(dated, "value"))))

\* a record of the latest-months / latest-hour payload of most parameters
DateRecord(hour, value) ==
    <<<<"date", hour * MsPerHour>>, <<"value", Str(value)>>, <<"quality", "G">>>>
\* a record of the payload of a 24-hour parameter, for the day `day`
RefRecord(day, value) ==
    <<<<"from", (day * HoursPerDay - 18) * MsPerHour>>,
      <<"to", (day * HoursPerDay + 6) * MsPerHour>>,
      <<"ref", day>>, <<"value", Str(value)>>, <<"quality", "G">>>>

JsonPayloads ==
    UNION {[1..n -> {DateRecord(1, v) : v \in SampleValues}] : n \in 0..MaxRecords}
    \cup UNION {[1..n -> {RefRecord(1, v) : v \in SampleValues}] : n \in 1..MaxRecords}

JsonInit ==
    /\ pc = "json" /\ raised = "none"
    /\ json_data \in JsonPayloads
    /\ parameter \in Range(Parameter)
    /\ csv_df = EmptyFrame /\ df = EmptyFrame
    /\ LatestIdle

JsonToDataframeCall ==
    /\ pc = "json"
    /\ raised' = JsonToDataframe(json_data, parameter).raised
    /\ df' = IF JsonToDataframe(json_data, parameter).raised = "none"
             THEN JsonToDataframe(json_data, parameter).df
             ELSE df
    /\ pc' = "normalized"
    /\ UNCHANGED <<json_data, csv_df, parameter, stitchVars, stations,
                   closestVars, stationVars, latestVars, joinVars>>

(***************************************************************************)
(* get_latest_observations (client.py).                                    *)
(***************************************************************************)
\* the loop over res["station"]: one dictionary per value of each station
\* whose value list is not None
RECURSIVE ObservationValues(_, _)
ObservationValues(stationData, name) ==
    IF stationData = <<>> THEN <<>>
    ELSE LET x == Head(stationData) IN
         (IF IsNone(x, "value") THEN <<>>
          ELSE [k \in 1..Len(x.value) |->
                   [parameter_id |-> ParameterValue(name),
                    timestamp |-> x.value[k].date,
                    value |-> TryParseFloat(x.value[k].value),
                    station |-> x.key]])
         \o ObservationValues(Tail(stationData), name)

\* the entries of res["station"]: value is None, or a list of observations
StationEntries ==
    {[key |-> "159880"], [key |-> "159880", value |-> <<>>]}
    \cup {[key |-> "159880", value |-> <<[date |-> MsPerHour, value |-> Str(v)]>>] :
             v \in SampleValues}

LatestInit ==
    /\ pc = "observe" /\ raised = "none"
    /\ parameter \in {Parameter[1], Parameter[4]}
    /\ station_set \in {[key |-> "1"], [key |-> "1", stationSet |-> <<"all">>]}
    /\ periods \in {[key |-> "all"]} \cup
                   {[key |-> "all", period |-> ps] :
                       ps \in {<<>>, <<[key |-> "latest-hour"]>>, <<[key |-> "latest-day"]>>}}
    /\ res \in UNION {[1..n -> StationEntries] : n \in 0..MaxRecords}
    /\ values = <<>>
    /\ json_data = <<>> /\ csv_df = EmptyFrame /\ df = EmptyFrame

GetLatestObservations ==
    /\ pc = "observe"
    /\ pc' = "observed"
    /\ IF IsNone(station_set, "stationSet")
       THEN raised' = "NotImplementedError" /\ UNCHANGED values
       ELSE IF IsNone(periods, "period") \/ Len(periods.period) = 0
       THEN raised' = "NotImplementedError" /\ UNCHANGED values
       ELSE IF periods.period[1].key # "latest-hour"
       THEN raised' = "NotImplementedError" /\ UNCHANGED values
       ELSE /\ values' = ObservationValues(res, parameter)
            /\ UNCHANGED raised
    /\ UNCHANGED <<station_set, periods, res, frameVars, stitchVars, stations,
                   closestVars, stationVars, joinVars>>

CoerceInit ==
    /\ JsonInit \/ LatestInit
    /\ stations = <<>>
    /\ StitchIdle /\ ClosestIdle /\ StationsIdle /\ JoinIdle

CoerceNext ==
    \/ JsonToDataframeCall
    \/ GetLatestObservations
SpecCoerce == CoerceInit /\ [][CoerceNext]_vars

(***************************************************************************)
(* Claims about value coercion on the JSON paths.                          *)
(***************************************************************************)
\* the numbers the parsable value strings of the model stand for
SampleNumber ==
    (<<"3", ".", "1", "4">> :> 3140) @@ (<<"7">> :> 7000) @@
    (<<"-", "0", ".", "5">> :> -500)
Unparsable(chars) == chars \notin DOMAIN SampleNumber
\* what lenient coercion makes of a value string
Lenient(chars) ==
    IF Unparsable(chars) THEN Str(chars) ELSE Float(SampleNumber[chars])
SameValue(a, b) == "t" \in DOMAIN a /\ a.t = b.t /\ a.v = b.v

\* the value string of a JSON record
JsonValue(record) ==
    record[CHOOSE c \in 1..Len(record) : record[c][1] = "value"][2].v
\* the payload has the shape the API serves for the parameter
JsonShaped ==
    /\ json_data # <<>>
    /\ (parameter \in {"PrecipPast24hAt06"}) <=> (json_data[1][1][1] = "from")

\* the value strings of res["station"], in the order of the result
RECURSIVE ObservedStrings(_)
ObservedStrings(stationData) ==
    IF stationData = <<>> THEN <<>>
    ELSE (IF "value" \in DOMAIN Head(stationData)
          THEN [k \in 1..Len(Head(stationData).value) |-> Head(stationData).value[k].value.v]
          ELSE <<>>)
         \o ObservedStrings(Tail(stationData))
LatestHourServed ==
    /\ "stationSet" \in DOMAIN station_set
    /\ "period" \in DOMAIN periods
    /\ periods.period = <<[key |-> "latest-hour"]>>

\* C4 as stated: on the JSON paths a value that cannot be parsed as a number
\* does not make normalization raise and is kept as the original string, and
\* a parsable value becomes its number.
C4_JsonCoercionLenient ==
    /\ (pc = "normalized" /\ JsonShaped) =>
          /\ raised = "none"
          /\ \A r \in 1..Len(json_data) :
                 SameValue(Col(df, "value")[r], Lenient(JsonValue(json_data[r])))
    /\ (pc = "observed" /\ LatestHourServed) =>
          /\ raised = "none"
          /\ \A k \in 1..Len(ObservedStrings(res)) :
                 SameValue(values[k].value, Lenient(ObservedStrings(res)[k]))

\* C4 amended: coercion is lenient on the latest-observations path only
\* (get_latest_observations, through try_parse_float): there a string that
\* cannot be parsed does not make the call raise and is kept unchanged, and a
\* parsable string becomes its number.  json_to_dataframe coerces strictly: it
\* raises ValueError exactly when a value of the payload cannot be parsed.
C4_LenientOnlyInLatestObservations ==
    /\ (pc = "observed" /\ LatestHourServed) =>
          /\ raised = "none"
          /\ Len(values) = Len(ObservedStrings(res))
          /\ \A k \in 1..Len(ObservedStrings(res)) :
                 SameValue(values[k].value, Lenient(ObservedStrings(res)[k]))
    /\ (pc = "normalized" /\ JsonShaped) =>
          /\ (raised = "ValueError") <=>
                 (\E r \in 1..Len(json_data) : Unparsable(JsonValue(json_data[r])))
          /\ raised \in {"none", "ValueError"}
          /\ raised = "none" =>
                 \A r \in 1..Len(json_data) :
                     SameValue(Col(df, "value")[r],
                               Float(SampleNumber[JsonValue(json_data[r])]))

\* latest observations with the value "N/A" kept as it is and "3.14" parsed
C4_Witness ==
    /\ pc = "observed" /\ raised = "none"
    /\ Len(values) = 2
    /\ SameValue(values[1].value, Str(<<"N", "/", "A">>))
    /\ SameValue(values[2].value, Float(3140))

(***************************************************************************)
(* format_archived_dataframe (utils.py).  In the archived CSV a date is    *)
(* the number of its day and a time of day the number of its hour.         *)
(***************************************************************************)
\* pd.to_datetime(df.Datum, utc=True) + pd.to_timedelta(df["Tid (UTC)"])
DatePlusTime(dates, times) ==
    [r \in 1..Len(dates) |-> dates[r] * HoursPerDay + times[r]]

\* the selection, renaming and float conversion both layouts end with
SelectRenameConvert(frame, ps, name) ==
    IF ~ILocOk(frame, ps) THEN Raise("IndexError", frame)
    ELSE LET renamed == [ILoc(frame, ps) EXCEPT !.columns = <<"date", name, "quality">>] IN
         IF ~AsTypeFloatOk(Col(renamed, name)) THEN Raise("ValueError", renamed)
         ELSE Return(SetCol(renamed, name, AsTypeFloat(Col(renamed, name))))

FormatArchivedDataframe(frame, name) ==
    IF InGroup1(name)
    THEN IF ~HasCol(frame, "Datum") THEN Raise("AttributeError", frame)
         ELSE IF ~HasCol(frame, "Tid (UTC)") THEN Raise("KeyError", frame)
         ELSE SelectRenameConvert(
                  SetCol(frame, "date",
                         DatePlusTime(Col(frame, "Datum"), Col(frame, "Tid (UTC)"))),
                  <<-1, 2, 3>>, name)
    ELSE IF InGroup2(name)
    THEN IF ~HasCol(frame, "Representativt dygn") THEN Raise("KeyError", frame)
         ELSE SelectRenameConvert(
                  SetCol(frame, "date", ToDatetimeDay(Col(frame, "Representativt dygn"))),
                  <<-1, 3, 4>>, name)
    ELSE Raise("NotImplementedError", frame)

\* the archived CSV of an instantaneous parameter, after the 9 skipped rows
Group1Columns ==
    <<"Datum", "Tid (UTC)", "Lufttemperatur", "Kvalitet", "Unnamed: 4", "Tidsutsnitt:">>
\* the archived CSV of a 24-hour parameter
Group2Columns ==
    <<"Fran Datum Tid (UTC)", "Till Datum Tid (UTC)", "Representativt dygn",
      "Nederbordsmangd", "Kvalitet", "Unnamed: 5", "Tidsutsnitt:">>
CsvFrame(columns, rows) ==
    [columns |-> columns, index |-> [r \in 1..Len(rows) |-> r - 1], data |-> rows]
CsvFrames ==
    UNION {{CsvFrame(Group1Columns, rows) :
              rows \in [1..n -> {<<1, h, Str(v), "G", "", "">> :
                                    h \in {0, 1}, v \in SampleValues}]}
           : n \in 0..MaxRecords}
    \cup
    UNION {{CsvFrame(Group2Columns, rows) :
              rows \in [1..n -> {<<d - 1, d, d, Str(v), "G", "", "">> :
                                    d \in {1, 2}, v \in SampleValues}]}
           : n \in 0..MaxRecords}

ArchiveInit ==
    /\ pc = "archive" /\ raised = "none"
    /\ csv_df \in CsvFrames
    /\ parameter \in Range(Parameter)
    /\ json_data = <<>> /\ df = EmptyFrame
    /\ stations = <<>>
    /\ StitchIdle /\ ClosestIdle /\ StationsIdle /\ LatestIdle /\ JoinIdle

\* df = format_archived_dataframe(df, parameter) of get_corrected_data
FormatArchivedDataframeCall ==
    /\ pc = "archive"
    /\ raised' = FormatArchivedDataframe(csv_df, parameter).raised
    /\ df' = IF FormatArchivedDataframe(csv_df, parameter).raised = "none"
             THEN FormatArchivedDataframe(csv_df, parameter).df
             ELSE df
    /\ pc' = "formatted"
    /\ UNCHANGED <<json_data, csv_df, parameter, stitchVars, stations,
                   closestVars, stationVars, latestVars, joinVars>>

ArchiveNext == FormatArchivedDataframeCall
SpecArchive == ArchiveInit /\ [][ArchiveNext]_vars

(***************************************************************************)
(* Claims about format_archived_dataframe.                                 *)
(***************************************************************************)
Group1Names == {"TemperaturePast1h", "Humidity"}
Group2Names == {"PrecipPast24hAt06"}

\* C8: a parameter of group 1 is normalized with the group-1 layout (date =
\* Datum + Tid (UTC), then the 3rd and 4th columns), one of group 2 with the
\* group-2 layout (date = Representativt dygn, then the 4th and 5th columns),
\* and every other parameter makes the call fail with NotImplementedError
\* without yielding a table.
C8_ArchiveLayoutByGroup ==
    pc = "formatted" =>
        /\ (parameter \in Group1Names /\ csv_df.columns = Group1Columns) =>
              /\ raised \in {"none", "ValueError"}
              /\ raised = "none" =>
                    /\ df.columns = <<"date", parameter, "quality">>
                    /\ \A r \in 1..NRows(csv_df) :
                          /\ df.data[r][1] = csv_df.data[r][1] * 24 + csv_df.data[r][2]
                          /\ df.data[r][2].t = "float"
                          /\ df.data[r][3] = csv_df.data[r][4]
                    /\ NRows(df) = NRows(csv_df)
        /\ (parameter \in Group2Names /\ csv_df.columns = Group2Columns) =>
              /\ raised \in {"none", "ValueError"}
              /\ raised = "none" =>
                    /\ df.columns = <<"date", parameter, "quality">>
                    /\ \A r \in 1..NRows(csv_df) :
                          /\ df.data[r][1] = csv_df.data[r][3] * 24
                          /\ df.data[r][2].t = "float"
                          /\ df.data[r][3] = csv_df.data[r][5]
                    /\ NRows(df) = NRows(csv_df)
        /\ parameter \in Group1Names \cup Group2Names => raised # "NotImplementedError"
        /\ parameter \notin Group1Names \cup Group2Names =>
              raised = "NotImplementedError" /\ df = EmptyFrame

\* a parameter of neither group, given a well-formed group-2 table, has failed
C8_Witness ==
    /\ pc = "formatted"
    /\ parameter = "WindSpeed"
    /\ csv_df.columns = Group2Columns
    /\ NRows(csv_df) = 1
    /\ csv_df.data[1][4] = Str(<<"7">>)
    /\ raised = "NotImplementedError"

(***************************************************************************)
(* get_latest_months_multiple_params (client.py).  One step per iteration  *)
(* of the loop, each of which performs one HTTP request.                   *)
(***************************************************************************)
\* frame[names]: the named columns, in the order asked for
SelectCols(frame, names) ==
    [frame EXCEPT
        !.columns = names,
        !.data = [r \in 1..NRows(frame) |->
                    [k \in 1..Len(names) |-> frame.data[r][ColPos(frame, names[k])]]]]

\* the row of the frame with the index label
RowOf(frame, label) == CHOOSE r \in 1..NRows(frame) : frame.index[r] = label

\* mutant: an outer join, absent cells filled with NaN
ConcatOuter(a, b) ==
    LET onlyB == Mask(b.index, [r \in 1..NRows(b) |-> b.index[r] \notin Range(a.index)])
        nanA == [c \in 1..Len(a.columns) |-> "NaN"]
        nanB == [c \in 1..Len(b.columns) |-> "NaN"]
    IN [columns |-> a.columns \o b.columns,
        index |-> a.index \o onlyB,
        data |-> [r \in 1..NRows(a) |->
                     a.data[r] \o (IF a.index[r] \in Range(b.index)
                                   THEN b.data[RowOf(b, a.index[r])] ELSE nanB)]
                 \o [r \in 1..Len(onlyB) |-> nanA \o b.data[RowOf(b, onlyB[r])]]]

\* pd.concat([a, b], join="inner", axis=1) of frames with unique index labels:
\* the rows whose label is in both indexes, the columns of a then those of b
ConcatInner(a, b) ==
    LET keep == [r \in 1..NRows(a) |-> a.index[r] \in Range(b.index)]
        labels == Mask(a.index, keep)
        rows == Mask(a.data, keep)
    IN [columns |-> a.columns \o b.columns,
        index |-> labels,
        data |-> [r \in 1..Len(labels) |-> rows[r] \o b.data[RowOf(b, labels[r])]]]

station_id == 159880
QualityName(name) == "quality_" \o name

\* lines 248-256: the table of one parameter, indexed by date
SingleParam(records, name) ==
    LET got == JsonToDataframe(records, name) IN
    IF got.raised # "none" THEN got
    ELSE LET stationed ==
                 SetCol(got.df, "station_id", [r \in 1..NRows(got.df) |-> station_id])
         IN IF Len(stationed.columns) # 4 THEN Raise("ValueError", stationed)
            ELSE Return([stationed EXCEPT
                            !.columns = <<"date", name, QualityName(name), "station_id">>,
                            !.index = Col(stationed, "date")])

\* the latest-months payload of a parameter with one record per day of days
LatestMonthsPayload(name, days) ==
    [r \in 1..Cardinality(days) |->
        IF InGroup2(name)
        THEN RefRecord(SortedSeq(days)[r], <<"7">>)
        ELSE DateRecord(SortedSeq(days)[r] * HoursPerDay, <<"7">>)]

JoinParameterLists ==
    UNION {{ps \in [1..n -> {Parameter[1], Parameter[4], Parameter[5]}] :
                \A a \in 1..n : \A b \in 1..n : a # b => ps[a] # ps[b]}
           : n \in 0..MaxTables}

JoinInit ==
    /\ pc = "join" /\ raised = "none"
    /\ parameters \in JoinParameterLists
    /\ \E days \in [1..Len(parameters) -> SUBSET (1..MaxJoinDate)] :
           api_json = [k \in 1..Len(parameters) |->
                          LatestMonthsPayload(parameters[k], days[k])]
    /\ i = 0
    /\ json_data = <<>> /\ csv_df = EmptyFrame /\ parameter = "" /\ df = EmptyFrame
    /\ stations = <<>>
    /\ StitchIdle /\ ClosestIdle /\ StationsIdle /\ LatestIdle

\* one iteration of: for i, parameter in enumerate(parameters)
JoinIteration ==
    /\ pc = "join" /\ i < Len(parameters)
    /\ LET name == parameters[i + 1]
           single == SingleParam(api_json[i + 1], name)
       IN IF single.raised # "none"
          THEN /\ raised' = single.raised
               /\ pc' = "joined"
               /\ UNCHANGED <<df, i>>
          ELSE /\ df' = IF i = 0 THEN single.df
                        ELSE ConcatInner(df, SelectCols(single.df,
                                                        <<name, QualityName(name)>>))
               /\ i' = i + 1
               /\ UNCHANGED <<pc, raised>>
    /\ UNCHANGED <<parameters, api_json, json_data, csv_df, parameter,
                   stitchVars, stations, closestVars, stationVars, latestVars>>

\* return df: df is unbound when parameters is empty
JoinReturn ==
    /\ pc = "join" /\ i = Len(parameters)
    /\ raised' = IF Len(parameters) = 0 THEN "UnboundLocalError" ELSE raised
    /\ pc' = "joined"
    /\ UNCHANGED <<joinVars, frameVars, stitchVars, stations, closestVars,
                   stationVars, latestVars>>

JoinNext ==
    \/ JoinIteration
    \/ JoinReturn
SpecJoin == JoinInit /\ [][JoinNext]_vars

(***************************************************************************)
(* Claims about get_latest_months_multiple_params.                         *)
(***************************************************************************)
\* the instants (hours since the epoch) of the records of a payload
PayloadInstants(payload) ==
    {IF payload[r][1][1] = "date" THEN payload[r][1][2] \div 3600000
     ELSE payload[r][3][2] * 24 : r \in 1..Len(payload)}

\* C5: the set of timestamps of the wide table is the intersection of the
\* timestamp sets of all input tables, so it has at most as many rows as each
\* input and none when two inputs have disjoint timestamps.
C5_JoinIsIntersection ==
    (pc = "joined" /\ raised = "none") =>
        /\ Len(parameters) >= 1
        /\ \A t \in 0..(24 * (MaxJoinDate + 1)) :
               (t \in Range(df.index)) <=>
                   (\A k \in 1..Len(parameters) : t \in PayloadInstants(api_json[k]))
        /\ \A a \in 1..NRows(df) : \A b \in 1..NRows(df) :
               a # b => df.index[a] # df.index[b]
        /\ \A k \in 1..Len(parameters) : NRows(df) <= Len(api_json[k])
        /\ Len(df.index) = NRows(df)
        /\ Len(df.columns) = 2 + 2 * Len(parameters)

\* three tables whose timestamps overlap in part: the wide table has a row,
\* and fewer rows than each input
C5_Witness ==
    /\ pc = "joined" /\ raised = "none"
    /\ Len(parameters) = 3
    /\ NRows(df) >= 1
    /\ \A k \in 1..3 : NRows(df) < Len(api_json[k])

\* two tables with disjoint timestamps: no row
C5_DisjointWitness ==
    /\ pc = "joined" /\ raised = "none"
    /\ Len(parameters) = 2
    /\ PayloadInstants(api_json[1]) # {} /\ PayloadInstants(api_json[2]) # {}
    /\ PayloadInstants(api_json[1]) \cap PayloadInstants(api_json[2]) = {}
    /\ NRows(df) = 0

====
